---- MODULE Spec2Model ----
(***************************************************************************)
(* Model of WebpackStreamingTaskPlugin (src/index.js).                     *)
(*                                                                         *)
(* One plugin instance is attached to a host compiler.  The host invokes   *)
(* the afterEmit hook once per build cycle with a compilation object and a *)
(* completion callback.  The handler is an async function: it runs         *)
(* synchronously up to `await getDependencyFiles()`, resumes when the glob *)
(* expansion settles, and may leave a task execution pending (started with *)
(* bach.settleSeries) when it returns.                                     *)
(*                                                                         *)
(* Paths are absolute, normalised POSIX paths, written as sequences of     *)
(* segments (<<"a", "b">> is /a/b).  A timestamp Map is a sequence of      *)
(* <<path, time>> pairs with distinct paths, in insertion order.           *)
(***************************************************************************)
EXTENDS Integers, Sequences, FiniteSets, TLC

VARIABLES
  options,              \* this.options, fixed at construction
  watchMode,            \* compiler.watchMode
  prevTimestamps,       \* this.prevTimestamps: [present, map]
  fileDependencies,     \* compilation.fileDependencies (watched files)
  contextDependencies,  \* compilation.contextDependencies (watched dirs)
  cycles,               \* the hook invocations the host still holds, latest
                        \* last: what the closures of each one share
  handler,              \* local variables of the latest handler invocation
  probe                 \* the call at hand when a helper function is
                        \* exercised on its own: its inputs and results

vars == <<options, watchMode, prevTimestamps, fileDependencies,
          contextDependencies, cycles, handler, probe>>

----------------------------------------------------------------------------
(* Bounds of the model *)

\* this.startTime = Date.now() at construction
StartTime == 1
\* host timestamps range up to MaxAhead ticks after construction
MaxAhead == 1
\* number of cycles whose task may be pending when the host starts a cycle
MaxPending == 1

\* length of the directory lists a registration call is exercised on
MaxDirs == 2

\* length of the file lists getChangedDependencies is exercised on
MaxFiles == 2
\* largest count of hours, of minutes and of seconds in the durations
\* getDurationString is exercised on
MaxUnits == 1

MaxTime == StartTime + MaxAhead
TimeValues == StartTime..MaxTime
\* stands for JavaScript's Infinity: greater than every timestamp
Infinity == MaxTime + 1

----------------------------------------------------------------------------
(* The file system the model draws its inputs from *)

DirA == <<"a">>
DirAB == <<"a", "b">>
DirABC == <<"a", "b", "c">>
FileX == <<"a", "x.css">>
FileY == <<"a", "b", "y.css">>
FileZ == <<"c", "z.js">>

\* what globby(source) may resolve to in a cycle
GlobResults == {<<>>, <<FileX, FileY>>, <<FileY, FileX>>}

\* the fileTimestamps maps the host may supply
Snapshots ==
  {<<<<FileZ, MaxTime>>, <<FileX, tx>>, <<FileY, MaxTime>>>> :
      tx \in TimeValues}
    \cup {<<>>}

\* what the watched-directory registry may hold before the first cycle:
\* nothing, or a directory another collaborator registered
InitialRegistries == {{}, {DirABC}}

----------------------------------------------------------------------------
(* Generic helpers *)

Range(s) == {s[i] : i \in 1..Len(s)}

\* Array.prototype.includes
Includes(s, x) == \E i \in 1..Len(s) : s[i] = x

\* Map.prototype.keys, in insertion order
MapKeys(m) == [i \in 1..Len(m) |-> m[i][1]]

\* Map.prototype.has
MapHas(m, k) == \E i \in 1..Len(m) : m[i][1] = k

\* `m.get(k) || dflt`: a missing key yields undefined and a zero timestamp
\* is falsy, so both fall through to dflt
MapGetOr(m, k, dflt) ==
  IF \E i \in 1..Len(m) : m[i][1] = k /\ m[i][2] # 0
    THEN (CHOOSE t \in {m[i][2] : i \in {j \in 1..Len(m) : m[j][1] = k}} : TRUE)
    ELSE dflt

----------------------------------------------------------------------------
(* Path helpers (node's path module, POSIX flavour) *)

Min(a, b) == IF a < b THEN a ELSE b

\* number of leading segments two paths share
CommonLen(p, q) ==
  CHOOSE n \in 0..Min(Len(p), Len(q)) :
    /\ \A i \in 1..n : p[i] = q[i]
    /\ n < Min(Len(p), Len(q)) => p[n + 1] # q[n + 1]

\* path.relative(from, to): one ".." per remaining segment of `from`, then
\* the remaining segments of `to`; the empty sequence is the empty string
PathRelative(from, to) ==
  [i \in 1..(Len(from) - CommonLen(from, to)) |-> ".."]
    \o SubSeq(to, CommonLen(from, to) + 1, Len(to))

\* path.dirname
PathDirname(p) == SubSeq(p, 1, Len(p) - 1)

\* segment names of the model's universe that begin with two dots
DotDotNames == {"..", "..b"}

\* String.prototype.startsWith('..') on the joined relative path
StartsWithDotDot(rel) == Len(rel) > 0 /\ rel[1] \in DotDotNames

\* path.isAbsolute on the joined relative path: it begins with a separator
\* only if its first segment is empty
PathIsAbsolute(rel) == Len(rel) > 0 /\ rel[1] = ""

isDirectorySubdirectory(child, parent) ==
  LET relative == PathRelative(parent, child)
  IN  /\ Len(relative) > 0
      /\ ~StartsWithDotDot(relative)
      /\ ~PathIsAbsolute(relative)

----------------------------------------------------------------------------
(* getDurationString *)

MILLISECOND == 1
SECOND == MILLISECOND * 1000
MINUTE == SECOND * 60
HOUR == MINUTE * 60

\* The three counting loops leave the quotients in hours, minutes and
\* seconds and the remainder in ms; a number is truthy iff it is not zero;
\* the output is the concatenation of the five pieces.
getDurationString(duration) ==
  LET hours == duration \div HOUR
      minutes == (duration % HOUR) \div MINUTE
      seconds == (duration % MINUTE) \div SECOND
      ms == duration % SECOND
  IN  (IF hours # 0 THEN ToString(hours) \o "h " ELSE "")
        \o (IF hours # 0 \/ minutes # 0 THEN ToString(minutes) \o "m " ELSE "")
        \o (IF hours # 0 \/ minutes # 0 \/ seconds # 0
              THEN ToString(seconds) \o "s" ELSE "")
        \o (IF minutes = 0 /\ seconds # 0 /\ ms # 0 THEN " " ELSE "")
        \o (IF minutes = 0 /\ ms # 0 THEN ToString(ms) \o "ms" ELSE "")

----------------------------------------------------------------------------
(* Helpers of the afterEmit handler *)

\* the watched-file set replaced by the dependency files
addDependencyFilesOnly(fileDeps, dependencyFiles) ==
  Range(dependencyFiles)

\* adds each dependency file that the set does not hold yet
addDependencyFiles(fileDeps, dependencyFiles) ==
  fileDeps \cup {f \in Range(dependencyFiles) : f \notin fileDeps}

getDependencyDirectories(dependencyFiles) ==
  [i \in 1..Len(dependencyFiles) |-> PathDirname(dependencyFiles[i])]

\* the .filter step: evaluated for the whole list against the registry as
\* it is before anything is added
UnwatchedDirectories(registry, dependencyDirs) ==
  SelectSeq(dependencyDirs, LAMBDA d :
    /\ d \notin registry
    /\ ~\E parentPath \in registry : isDirectorySubdirectory(d, parentPath))

\* the .forEach step deleting the registered children without the add
AddDirectoryDeletingOnly(registry, directoryPath) ==
  registry \ {c \in registry : isDirectorySubdirectory(c, directoryPath)}

\* the .forEach step deleting the registered parents instead of the children
AddDirectoryDroppingParents(registry, directoryPath) ==
  (registry \ {c \in registry : isDirectorySubdirectory(directoryPath, c)})
    \cup {directoryPath}

\* the .forEach step for one directory: delete registered children, add it
AddDirectory(registry, directoryPath) ==
  (registry \ {c \in registry : isDirectorySubdirectory(c, directoryPath)})
    \cup {directoryPath}

RECURSIVE AddDirectories(_, _)
AddDirectories(registry, dirs) ==
  IF dirs = <<>> THEN registry
  ELSE AddDirectories(AddDirectory(registry, Head(dirs)), Tail(dirs))

watchDependencyDirectories(registry, dependencyDirs) ==
  AddDirectories(registry, UnwatchedDirectories(registry, dependencyDirs))

\* getChangedFiles comparing with <= instead of <
getChangedFilesInclusive(fileTimestamps, prev, startTime) ==
  SelectSeq(MapKeys(fileTimestamps), LAMBDA filepath :
    LET prevTime == IF ~prev.present THEN startTime
                    ELSE MapGetOr(prev.map, filepath, startTime)
        newTime == MapGetOr(fileTimestamps, filepath, Infinity)
    IN  prevTime <= newTime)

\* keys of the current snapshot whose previous time is before the new time
getChangedFiles(fileTimestamps, prev, startTime) ==
  SelectSeq(MapKeys(fileTimestamps), LAMBDA filepath :
    LET prevTime == IF ~prev.present THEN startTime
                    ELSE MapGetOr(prev.map, filepath, startTime)
        newTime == MapGetOr(fileTimestamps, filepath, Infinity)
    IN  prevTime < newTime)

\* getChangedDependencies filtering dependencyFiles by membership in changedFiles
getChangedDependenciesByDependency(dependencyFiles, changedFiles) ==
  SelectSeq(dependencyFiles, LAMBDA filepath : Includes(changedFiles, filepath))

getChangedDependencies(dependencyFiles, changedFiles) ==
  SelectSeq(changedFiles, LAMBDA filepath : Includes(dependencyFiles, filepath))

\* `this.prevTimestamps.length < 1`: fileTimestamps is a Map (the handler
\* calls .keys() and .get() on it), a Map has no length property, and
\* undefined < 1 is false
LengthLessThanOne(map) == FALSE

noPreviousTimestamps(prev) ==
  ~prev.present \/ LengthLessThanOne(prev.map)

\* shouldSkip without the watch-mode test
shouldSkipAnyMode(watch, noPrev, opts) ==
  noPrev /\ opts.skipInitialRun

shouldSkip(watch, noPrev, opts) ==
  watch /\ noPrev /\ opts.skipInitialRun

\* shouldAlwaysRun reading watchMode.alwaysRun alone
shouldAlwaysRunCurrentOnly(opts) ==
  opts.alwaysRun

shouldAlwaysRun(opts) ==
  IF opts.always # "undefined" THEN opts.always = "true" ELSE opts.alwaysRun

shouldWatchSourceDirectories(opts) ==
  IF opts.watchSourceDirectories # "undefined"
    THEN opts.watchSourceDirectories = "true"
    ELSE opts.includeSourceDirectories

\* the run condition with always-run exempt from the skip
RunConditionAlwaysFirst(noPrev, taskFileHasChanged, alwaysRun, skip) ==
  ((noPrev \/ taskFileHasChanged) /\ ~skip) \/ alwaysRun

\* (noPreviousTimestamps || taskFileHasChanged || shouldAlwaysRun) && !shouldSkip
RunCondition(noPrev, taskFileHasChanged, alwaysRun, skip) ==
  (noPrev \/ taskFileHasChanged \/ alwaysRun) /\ ~skip

\* streamSource chosen on changedFilesOnly alone
StreamSourceAll(dependencyFiles, changedDependencies, taskFileHasChanged, opts) ==
  IF opts.changedFilesOnly THEN changedDependencies ELSE dependencyFiles

\* streamSource: `source` (which vfs.src expands to the files the glob
\* matches) unless a dependency changed and changedFilesOnly is set
StreamSource(dependencyFiles, changedDependencies, taskFileHasChanged, opts) ==
  IF taskFileHasChanged /\ opts.changedFilesOnly
    THEN changedDependencies
    ELSE dependencyFiles

\* validateOptions: the warnings it pushes, in order
ValidationWarnings(opts) ==
  IF ~opts.source THEN <<"noSource">>
  ELSE IF opts.task = "missing" THEN <<"noTask">>
  ELSE
    (IF opts.watchSourceDirectories # "undefined"
       THEN <<"deprecatedWatchSourceDirectories">> ELSE <<>>)
    \o (IF /\ opts.watchSourceDirectories # "undefined"
           /\ opts.includeSourceDirectories # (opts.watchSourceDirectories = "true")
       THEN <<"mismatchWatchSourceDirectories">> ELSE <<>>)
    \o (IF opts.always # "undefined" THEN <<"deprecatedAlways">> ELSE <<>>)
    \o (IF /\ opts.always # "undefined"
           /\ opts.alwaysRun # (opts.always = "true")
       THEN <<"mismatchAlways">> ELSE <<>>)
    \o (IF opts.task # "function" THEN <<"taskNotFunction">> ELSE <<>>)

validateOptions(opts) ==
  opts.source /\ opts.task = "function"

----------------------------------------------------------------------------
(* State *)

\* option objects whose validation succeeds
ValidOptions ==
  {o \in [source : {TRUE}, task : {"function"},
          always : {"undefined", "true"}, alwaysRun : BOOLEAN,
          watchSourceDirectories : {"undefined"},
          includeSourceDirectories : BOOLEAN,
          skipInitialRun : BOOLEAN, changedFilesOnly : BOOLEAN] :
     o.always = "undefined" \/ ~o.alwaysRun}

\* option objects whose validation fails
InvalidOptions ==
  {o \in [source : BOOLEAN, task : {"function", "missing", "notFunction"},
          always : {"undefined"}, alwaysRun : {FALSE},
          watchSourceDirectories : {"undefined"},
          includeSourceDirectories : {FALSE},
          skipInitialRun : {FALSE}, changedFilesOnly : {FALSE}] :
     ~validateOptions(o)}

\* this.prevTimestamps = null
NoTimestamps == [present |-> FALSE, map |-> <<>>]

\* the handler's local variables before any invocation
NoHandler ==
  [first |-> FALSE, touched |-> {},
   noPreviousTimestamps |-> FALSE, shouldSkip |-> FALSE,
   dependencyFiles |-> <<>>, changedDependencies |-> <<>>,
   taskFileHasChanged |-> FALSE, decided |-> FALSE, skipNotice |-> FALSE,
   invoked |-> FALSE, streamSource |-> <<>>]

\* no helper function is exercised on its own
NoProbe == [fn |-> "none"]

Init ==
  /\ options \in ValidOptions \cup InvalidOptions
  /\ watchMode \in BOOLEAN
  /\ prevTimestamps = NoTimestamps
  /\ fileDependencies = {FileZ}
  /\ contextDependencies \in InitialRegistries
  /\ cycles = <<>>
  /\ handler = NoHandler
  /\ probe = NoProbe

Last(s) == s[Len(s)]

\* the cycles whose task execution is still pending
PendingCycles == SelectSeq(cycles, LAMBDA c : c.pc = "running")

----------------------------------------------------------------------------
(* Actions *)

\* The files of snapshot ft whose timestamp is later than the one the
\* previous hook invocation's snapshot held for them
Touched(before, ft) ==
  {f \in Range(MapKeys(ft)) :
     /\ MapHas(before, f)
     /\ MapGetOr(before, f, 0) < MapGetOr(ft, f, 0)}

\* the validation exit returning without a call of callback
StartedCycleNoCallback(ft, opts) ==
  [pc |-> IF validateOptions(opts) THEN "glob" ELSE "done",
   fileTimestamps |-> ft,
   valid |-> validateOptions(opts),
   callbacks |-> 0,
   warnings |-> ValidationWarnings(opts),
   errors |-> 0,
   finishNotice |-> FALSE]

\* What the closures of one hook invocation share, right after
\* validateOptions: the compilation (its fileTimestamps, warnings and
\* errors), the number of times callback was called, and where the
\* invocation stands:
\*   "glob"     awaiting getDependencyFiles()
\*   "running"  handler returned, task execution pending
\*   "done"     handler returned, nothing pending
\*   "rejected" the await threw, the handler's promise rejected
StartedCycle(ft, opts) ==
  [pc |-> IF validateOptions(opts) THEN "glob" ELSE "done",
   fileTimestamps |-> ft,
   valid |-> validateOptions(opts),
   callbacks |-> IF validateOptions(opts) THEN 0 ELSE 1,
   warnings |-> ValidationWarnings(opts),
   errors |-> 0,
   finishNotice |-> FALSE]

\* The handler's locals computed before the await.  `first` tells whether
\* this is the instance's first hook invocation and `touched` which files
\* the host saw change since the previous one.
StartedHandler(ft, opts, watch, prev, earlier) ==
  [NoHandler EXCEPT
     !.first = earlier = <<>>,
     !.touched = IF earlier = <<>> THEN {}
                 ELSE Touched(Last(earlier).fileTimestamps, ft),
     !.noPreviousTimestamps = validateOptions(opts) /\ noPreviousTimestamps(prev),
     !.shouldSkip = /\ validateOptions(opts)
                    /\ shouldSkip(watch, noPreviousTimestamps(prev), opts)]

\* The host invokes the afterEmit hook with a new snapshot, once the
\* previous cycle has called back.  The handler validates the options; on
\* failure it calls back and returns, otherwise it computes
\* noPreviousTimestamps and shouldSkip and awaits the glob expansion.
BeginCycle(ft) ==
  /\ cycles # <<>> => Last(cycles).callbacks >= 1
  /\ Len(PendingCycles) <= MaxPending
  /\ cycles' = Append(PendingCycles, StartedCycle(ft, options))
  /\ handler' = StartedHandler(ft, options, watchMode, prevTimestamps, cycles)
  /\ UNCHANGED <<options, watchMode, prevTimestamps, fileDependencies,
                 contextDependencies, probe>>

\* The handler's locals once it has run to its end: the skip notice is
\* logged when shouldSkip holds; when the run condition holds the stream is
\* created over streamSource and bach's `before` extension runs, the task
\* itself being deferred to a later tick
FinishedHandler(h, files, changedDeps, opts) ==
  LET run == RunCondition(h.noPreviousTimestamps, Len(changedDeps) > 0,
                          shouldAlwaysRun(opts), h.shouldSkip)
  IN  [h EXCEPT
         !.dependencyFiles = files,
         !.changedDependencies = changedDeps,
         !.taskFileHasChanged = Len(changedDeps) > 0,
         !.decided = TRUE,
         !.skipNotice = h.shouldSkip,
         !.invoked = run,
         !.streamSource =
            IF run
              THEN StreamSource(files, changedDeps, Len(changedDeps) > 0, opts)
              ELSE <<>>]

\* globby(source) resolves: the handler resumes and runs to its end, the
\* trailing callback() included
GlobResolve(files) ==
  /\ cycles # <<>>
  /\ Last(cycles).pc = "glob"
  /\ LET changedDeps ==
           getChangedDependencies(files,
             getChangedFiles(Last(cycles).fileTimestamps, prevTimestamps,
                             StartTime))
         h == FinishedHandler(handler, files, changedDeps, options)
     IN  /\ fileDependencies' = addDependencyFiles(fileDependencies, files)
         /\ contextDependencies' =
              IF shouldWatchSourceDirectories(options)
                THEN watchDependencyDirectories(contextDependencies,
                                                getDependencyDirectories(files))
                ELSE contextDependencies
         /\ handler' = h
         /\ cycles' = [cycles EXCEPT ![Len(cycles)] =
              [@ EXCEPT !.pc = IF h.invoked THEN "running" ELSE "done",
                        !.callbacks = @ + 1]]
  /\ UNCHANGED <<options, watchMode, prevTimestamps, probe>>

\* globby(source) rejects: the await throws, the async handler's promise
\* rejects and nothing after the await is executed
GlobReject ==
  /\ cycles # <<>>
  /\ Last(cycles).pc = "glob"
  /\ cycles' = [cycles EXCEPT ![Len(cycles)].pc = "rejected"]
  /\ UNCHANGED <<options, watchMode, prevTimestamps, fileDependencies,
                 contextDependencies, handler, probe>>

\* Sequence s without its i-th element
RemoveAt(s, i) == SubSeq(s, 1, i - 1) \o SubSeq(s, i + 1, Len(s))

\* The closures' shared state once the task has settled
SettledCycle(c, failed) ==
  [c EXCEPT !.pc = "done",
            !.finishNotice = TRUE,
            !.errors = IF failed THEN @ + 1 ELSE @,
            !.callbacks = IF failed THEN @ + 2 ELSE @ + 1]

\* the task of cycle i settling, with only the snapshot's first entry stored
TaskSettleStoringPartly(i, failed) ==
  /\ i \in 1..Len(cycles)
  /\ cycles[i].pc = "running"
  /\ cycles' = IF i = Len(cycles)
                 THEN [cycles EXCEPT ![i] = SettledCycle(@, failed)]
                 ELSE RemoveAt(cycles, i)
  /\ prevTimestamps' =
       [present |-> TRUE,
        map |-> IF cycles[i].fileTimestamps = <<>> THEN <<>>
                ELSE <<Head(cycles[i].fileTimestamps)>>]
  /\ UNCHANGED <<options, watchMode, fileDependencies, contextDependencies,
                 handler, probe>>

\* the task of cycle i settling, with the snapshot stored on success only
TaskSettleStoringOnSuccess(i, failed) ==
  /\ i \in 1..Len(cycles)
  /\ cycles[i].pc = "running"
  /\ cycles' = IF i = Len(cycles)
                 THEN [cycles EXCEPT ![i] = SettledCycle(@, failed)]
                 ELSE RemoveAt(cycles, i)
  /\ prevTimestamps' = IF failed THEN prevTimestamps
                       ELSE [present |-> TRUE, map |-> cycles[i].fileTimestamps]
  /\ UNCHANGED <<options, watchMode, fileDependencies, contextDependencies,
                 handler, probe>>

\* The task of cycle i settles.  bach.settleSeries settles every function,
\* so the `after` extension runs on success and on failure alike
\* (onTaskFinish: finish notice, callback); the invoke callback then receives
\* the errors, if any (onTaskResultError: error report, callback), and stores
\* the cycle's fileTimestamps in prevTimestamps.  The host keeps the record
\* of a settled cycle only while it is the latest one.
TaskSettle(i, failed) ==
  /\ i \in 1..Len(cycles)
  /\ cycles[i].pc = "running"
  /\ cycles' = IF i = Len(cycles)
                 THEN [cycles EXCEPT ![i] = SettledCycle(@, failed)]
                 ELSE RemoveAt(cycles, i)
  /\ prevTimestamps' = [present |-> TRUE, map |-> cycles[i].fileTimestamps]
  /\ UNCHANGED <<options, watchMode, fileDependencies, contextDependencies,
                 handler, probe>>

Next ==
  \/ \E ft \in Snapshots : BeginCycle(ft)
  \/ \E files \in GlobResults : GlobResolve(files)
  \/ GlobReject
  \/ \E i \in 1..(MaxPending + 1), failed \in BOOLEAN : TaskSettle(i, failed)

Spec == Init /\ [][Next]_vars

----------------------------------------------------------------------------
(* The same plugin constructed with every combination of the deprecated    *)
(* options and the options that replace them.                              *)

\* option objects that pass validation, each deprecated option unset, true
\* or false, each current option true or false
ResolvableOptions ==
  [source : {TRUE}, task : {"function"},
   always : {"undefined", "true", "false"}, alwaysRun : BOOLEAN,
   watchSourceDirectories : {"undefined", "true", "false"},
   includeSourceDirectories : BOOLEAN,
   skipInitialRun : {FALSE}, changedFilesOnly : {FALSE}]

InitOptions ==
  /\ options \in ResolvableOptions
  /\ watchMode = FALSE
  /\ prevTimestamps = NoTimestamps
  /\ fileDependencies = {FileZ}
  /\ contextDependencies \in InitialRegistries
  /\ cycles = <<>>
  /\ handler = NoHandler
  /\ probe = NoProbe

SpecOptions == InitOptions /\ [][Next]_vars

----------------------------------------------------------------------------
(* The helper functions exercised on their own: the plugin is constructed, *)
(* no hook invocation takes place, and one call of a helper is examined.   *)

\* the options object with every default of the constructor's destructuring
DefaultOptions ==
  [source |-> TRUE, task |-> "function",
   always |-> "undefined", alwaysRun |-> FALSE,
   watchSourceDirectories |-> "undefined",
   includeSourceDirectories |-> FALSE,
   skipInitialRun |-> FALSE, changedFilesOnly |-> FALSE]

\* the plugin right after construction, outside any build cycle
Constructed ==
  /\ options = DefaultOptions
  /\ watchMode = FALSE
  /\ prevTimestamps = NoTimestamps
  /\ fileDependencies = {}
  /\ contextDependencies = {}
  /\ cycles = <<>>
  /\ handler = NoHandler

\* directories a registry or a dependency list may name; one of them has a
\* name that begins with two dots
DirADots == <<"a", "..b">>
DirADotsC == <<"a", "..b", "c">>
DirC == <<"c">>
ProbeDirectories == {DirA, DirAB, DirABC, DirADots, DirADotsC, DirC}

\* the sequences over S of length at most n
SeqUpTo(S, n) == UNION {[1..k -> S] : k \in 0..n}

\* calls of watchDependencyDirectories: the registry as it is before the
\* call (`before`), the directory list, the registry as it is now, the
\* registry as the first call left it (`once`), the number of calls made
WatchProbes ==
  {[fn |-> "watchDependencyDirectories", before |-> r, dirs |-> d,
    registry |-> r, once |-> r, calls |-> 0] :
     r \in SUBSET ProbeDirectories, d \in SeqUpTo(ProbeDirectories, MaxDirs)}

\* watchDependencyDirectories is called with the probe's directory list, up
\* to twice in a row
CallWatchDependencyDirectories ==
  /\ probe.fn = "watchDependencyDirectories"
  /\ probe.calls < 2
  /\ probe' = [probe EXCEPT
       !.registry = watchDependencyDirectories(@, probe.dirs),
       !.once = IF probe.calls = 0
                  THEN watchDependencyDirectories(probe.registry, probe.dirs)
                  ELSE @,
       !.calls = @ + 1]
  /\ UNCHANGED <<options, watchMode, prevTimestamps, fileDependencies,
                 contextDependencies, cycles, handler>>

\* calls of isDirectorySubdirectory on every pair of directories
SubdirectoryProbes ==
  {[fn |-> "isDirectorySubdirectory", child |-> c, parent |-> p,
    called |-> FALSE, result |-> FALSE] :
     c \in ProbeDirectories, p \in ProbeDirectories}

CallIsDirectorySubdirectory ==
  /\ probe.fn = "isDirectorySubdirectory"
  /\ ~probe.called
  /\ probe' = [probe EXCEPT
       !.called = TRUE,
       !.result = isDirectorySubdirectory(probe.child, probe.parent)]
  /\ UNCHANGED <<options, watchMode, prevTimestamps, fileDependencies,
                 contextDependencies, cycles, handler>>

\* millisecond remainders of the durations
MillisecondSamples == {0, 1, 500, 999}

\* calls of getDurationString on durations made of up to MaxUnits hours,
\* minutes and seconds and a millisecond remainder
DurationProbes ==
  {[fn |-> "getDurationString",
    duration |-> h * HOUR + m * MINUTE + s * SECOND + ms,
    called |-> FALSE, result |-> ""] :
     h \in 0..MaxUnits, m \in 0..MaxUnits, s \in 0..MaxUnits,
     ms \in MillisecondSamples}

CallGetDurationString ==
  /\ probe.fn = "getDurationString"
  /\ ~probe.called
  /\ probe' = [probe EXCEPT
       !.called = TRUE,
       !.result = getDurationString(probe.duration)]
  /\ UNCHANGED <<options, watchMode, prevTimestamps, fileDependencies,
                 contextDependencies, cycles, handler>>

\* files a dependency list, a list of changed files or a timestamp map names
ProbeFiles == {FileX, FileY, FileZ}

\* lists of distinct files of length at most MaxFiles
FileLists ==
  {s \in SeqUpTo(ProbeFiles, MaxFiles) :
     \A i \in 1..Len(s), j \in 1..Len(s) : s[i] = s[j] => i = j}

\* timestamp maps over two files: any subset of them as keys, in either
\* order, each with a time before, at or after the construction time
TimestampMaps ==
  UNION {{[i \in 1..Len(keys) |-> <<keys[i], times[i]>>] :
            times \in [1..Len(keys) -> 1..MaxTime]} :
           keys \in {<<>>, <<FileX>>, <<FileY>>, <<FileX, FileY>>,
                     <<FileY, FileX>>}}

\* calls of getChangedFiles: the current snapshot, the stored one (or none)
\* and the construction time
ChangedFilesProbes ==
  {[fn |-> "getChangedFiles", fileTimestamps |-> ft, prev |-> prev,
    startTime |-> start, called |-> FALSE, result |-> <<>>] :
     ft \in TimestampMaps,
     prev \in {NoTimestamps}
               \cup {[present |-> TRUE, map |-> m] : m \in TimestampMaps},
     start \in 1..MaxTime}

CallGetChangedFiles ==
  /\ probe.fn = "getChangedFiles"
  /\ ~probe.called
  /\ probe' = [probe EXCEPT
       !.called = TRUE,
       !.result = getChangedFiles(probe.fileTimestamps, probe.prev,
                                  probe.startTime)]
  /\ UNCHANGED <<options, watchMode, prevTimestamps, fileDependencies,
                 contextDependencies, cycles, handler>>

\* calls of getChangedDependencies on two lists of distinct files
ChangedDependenciesProbes ==
  {[fn |-> "getChangedDependencies", dependencyFiles |-> deps,
    changedFiles |-> changed, called |-> FALSE, result |-> <<>>] :
     deps \in FileLists, changed \in FileLists}

CallGetChangedDependencies ==
  /\ probe.fn = "getChangedDependencies"
  /\ ~probe.called
  /\ probe' = [probe EXCEPT
       !.called = TRUE,
       !.result = getChangedDependencies(probe.dependencyFiles,
                                         probe.changedFiles)]
  /\ UNCHANGED <<options, watchMode, prevTimestamps, fileDependencies,
                 contextDependencies, cycles, handler>>

InitHelpers ==
  /\ Constructed
  /\ \/ probe \in WatchProbes
     \/ probe \in SubdirectoryProbes
     \/ probe \in DurationProbes
     \/ probe \in ChangedFilesProbes
     \/ probe \in ChangedDependenciesProbes

NextHelpers ==
  \/ CallWatchDependencyDirectories
  \/ CallIsDirectorySubdirectory
  \/ CallGetDurationString
  \/ CallGetChangedFiles
  \/ CallGetChangedDependencies

SpecHelpers == InitHelpers /\ [][NextHelpers]_vars

----------------------------------------------------------------------------
(* Properties *)

\* q lies strictly below p: p is a proper prefix of q
IsProperPrefix(p, q) == Len(p) < Len(q) /\ SubSeq(q, 1, Len(p)) = p

\* the handler of the latest cycle has run to its end
Decided == cycles # <<>> /\ handler.decided

SkipsInitialRun == watchMode /\ options.skipInitialRun

\* C1 (as claimed): in every build cycle the completion callback is invoked
\* no more than once.
CallbackAtMostOnce ==
  \A i \in 1..Len(cycles) : cycles[i].callbacks <= 1

\* C2 (as claimed): every cycle calls back at least once; stated for the
\* cycles whose handler is no longer awaiting anything: once the handler has
\* ended, the callback has been invoked.
CallbackAtLeastOnce ==
  \A i \in 1..Len(cycles) : cycles[i].pc # "glob" => cycles[i].callbacks >= 1

\* C3 (as claimed): once a cycle that passed validation is over and no task
\* is pending, prevTimestamps is that cycle's fileTimestamps snapshot.
SnapshotStoredAfterCycle ==
  (/\ cycles # <<>>
   /\ Last(cycles).valid
   /\ Last(cycles).pc = "done"
   /\ PendingCycles = <<>>)
    => prevTimestamps = [present |-> TRUE, map |-> Last(cycles).fileTimestamps]

\* C4 (as claimed): in watch mode with skipInitialRun the task is not run in
\* the first cycle, and it is run in every later cycle in which the host saw
\* a dependency file change since the previous cycle.
SkipInitialRunThenRunOnChange ==
  (Decided /\ SkipsInitialRun) =>
    /\ handler.first => ~handler.invoked
    /\ (/\ ~handler.first
        /\ handler.touched \cap Range(handler.dependencyFiles) # {})
         => handler.invoked

\* C5 (as claimed): with always-run resolved true the task is run in every
\* cycle that reaches the decision, except a first cycle skipped because of
\* skipInitialRun in watch mode.
AlwaysRunRunsEveryCycle ==
  (/\ Decided
   /\ shouldAlwaysRun(options)
   /\ ~(handler.first /\ SkipsInitialRun))
    => handler.invoked

\* C6: in a cycle without previous timestamps, in watch mode with
\* skipInitialRun and always-run both true, the task is not invoked and the
\* skip notice is emitted.
SkipTakesPriorityOverAlwaysRun ==
  (/\ Decided
   /\ handler.noPreviousTimestamps
   /\ SkipsInitialRun
   /\ shouldAlwaysRun(options))
    => ~handler.invoked /\ handler.skipNotice

SkipTakesPriorityWitness ==
  /\ Decided
  /\ handler.first
  /\ handler.noPreviousTimestamps
  /\ SkipsInitialRun
  /\ shouldAlwaysRun(options)
  /\ handler.skipNotice
  /\ ~handler.invoked
  /\ Last(cycles).pc = "done"

\* C7: the task is invoked iff (noPreviousTimestamps or taskFileHasChanged
\* or shouldAlwaysRun) and not (watch mode and noPreviousTimestamps and
\* skipInitialRun); when it is not invoked the skip notice is emitted iff
\* that skip condition holds.
RunDecisionTable ==
  /\ Decided =>
       LET skip == watchMode /\ handler.noPreviousTimestamps
                     /\ options.skipInitialRun
       IN  /\ handler.invoked <=>
                (/\ \/ handler.noPreviousTimestamps
                    \/ handler.taskFileHasChanged
                    \/ shouldAlwaysRun(options)
                 /\ ~skip)
           /\ ~handler.invoked => (handler.skipNotice <=> skip)
  \* the combinations no cycle of this instance reaches included
  /\ \A watch \in BOOLEAN, noPrev \in BOOLEAN, changed \in BOOLEAN,
        always \in BOOLEAN :
       RunCondition(noPrev, changed, always,
                    shouldSkip(watch, noPrev, options))
         <=> (/\ noPrev \/ changed \/ always
              /\ ~(watch /\ noPrev /\ options.skipInitialRun))

\* a cycle in which nothing changed: no task, no skip notice
RunDecisionWitness ==
  /\ Decided
  /\ ~handler.noPreviousTimestamps
  /\ ~handler.taskFileHasChanged
  /\ ~shouldAlwaysRun(options)
  /\ options.skipInitialRun
  /\ ~handler.invoked
  /\ ~handler.skipNotice

\* the timestamp map m holds for file f
TimeIn(m, f) == CHOOSE t \in {m[i][2] : i \in {j \in 1..Len(m) : m[j][1] = f}} : TRUE

\* the dependency files among `files` that snapshot ft reports with a time
\* after the one prev holds for them, or after startTime when it holds none
ChangedAmong(files, ft, prev, startTime) ==
  {f \in Range(files) :
     /\ MapHas(ft, f)
     /\ (IF prev.present /\ MapHas(prev.map, f)
           THEN TimeIn(prev.map, f) ELSE startTime) < TimeIn(ft, f)}

NoDuplicates(s) == Cardinality(Range(s)) = Len(s)

\* C8: whenever the handler invokes the task, the task's input is exactly
\* the changed dependency files if changedFilesOnly is set and at least one
\* dependency changed, and the full source set otherwise.
TaskInputSelection ==
  [][(/\ ~handler.decided
      /\ handler'.decided
      /\ handler'.invoked)
       => LET files == handler'.dependencyFiles
              changed == ChangedAmong(files, Last(cycles).fileTimestamps,
                                      prevTimestamps, StartTime)
          IN  /\ NoDuplicates(handler'.streamSource)
              /\ Range(handler'.streamSource) =
                   IF options.changedFilesOnly /\ changed # {}
                     THEN changed
                     ELSE Range(files)]_vars

\* two dependency files, one of them changed since the stored snapshot,
\* changedFilesOnly set: the task got the one changed file
TaskInputWitness ==
  /\ Decided
  /\ ~handler.first
  /\ ~handler.noPreviousTimestamps
  /\ handler.invoked
  /\ options.changedFilesOnly
  /\ Len(handler.dependencyFiles) = 2
  /\ handler.streamSource = <<FileX>>

\* C9 (as claimed): in the first cycle of a plugin instance the task always
\* runs and receives the full source set, whatever the flags and timestamps.
FirstCycleRunsWithFullInput ==
  (Decided /\ handler.first)
    => handler.invoked /\ handler.streamSource = handler.dependencyFiles

\* C9 (amended): in the first cycle the task runs unless watch mode is
\* active and skipInitialRun is set; when it runs its input is the full
\* source set unless changedFilesOnly is set and some dependency has a
\* timestamp after the construction time, and then it is exactly those
\* dependencies.
FirstCycleDecision ==
  (Decided /\ handler.first) =>
    LET files == handler.dependencyFiles
        changed == ChangedAmong(files, Last(cycles).fileTimestamps,
                                NoTimestamps, StartTime)
    IN  /\ handler.noPreviousTimestamps
        /\ handler.invoked <=> ~SkipsInitialRun
        /\ handler.invoked =>
             /\ NoDuplicates(handler.streamSource)
             /\ Range(handler.streamSource) =
                  IF options.changedFilesOnly /\ changed # {}
                    THEN changed
                    ELSE Range(files)

\* a first cycle whose task got only part of the source set
FirstCycleWitness ==
  /\ Decided
  /\ handler.first
  /\ handler.invoked
  /\ options.changedFilesOnly
  /\ Len(handler.dependencyFiles) = 2
  /\ handler.streamSource = <<FileY>>

\* C10 (as claimed): the watched-directory registry never holds two entries
\* one of which is a strict subdirectory of the other.
NoNestedWatchDirectories ==
  \A d \in contextDependencies, e \in contextDependencies :
    ~IsProperPrefix(d, e)

\* C11: directory registration is idempotent: calling
\* watchDependencyDirectories a second time with the same directory list
\* leaves the registry as the first call left it, whatever the registry held
\* before and whatever the list is.
RegistrationIdempotent ==
  (probe.fn = "watchDependencyDirectories" /\ probe.calls = 2)
    => probe.registry = probe.once

\* two calls, the first of which both added a directory and removed a
\* registered subdirectory of it
RegistrationIdempotentWitness ==
  /\ probe.fn = "watchDependencyDirectories"
  /\ probe.calls = 2
  /\ Len(probe.dirs) = 2
  /\ probe.before \ probe.once # {}
  /\ probe.once \ probe.before # {}
  /\ probe.registry = probe.once

\* the options lack `source`, lack `task`, or hold a task that is no function
FailsValidation ==
  ~options.source \/ options.task = "missing" \/ options.task = "notFunction"

\* C12: when option validation fails, every hook invocation reports the
\* warning that names the failure, invokes the completion callback (once),
\* never invokes the task, and leaves prevTimestamps, the watched-file set
\* and the watched-directory set as they were.
ValidationFailureEndsCycle ==
  [][FailsValidation =>
       /\ UNCHANGED <<prevTimestamps, fileDependencies, contextDependencies>>
       /\ cycles' # <<>>
       /\ Last(cycles').pc = "done"
       /\ Last(cycles').callbacks = 1
       /\ Includes(Last(cycles').warnings,
                   IF ~options.source THEN "noSource"
                   ELSE IF options.task = "missing" THEN "noTask"
                   ELSE "taskNotFunction")
       /\ ~handler'.invoked
       /\ ~handler'.decided]_vars

\* a second hook invocation of an instance whose task is not a function,
\* with another collaborator's directory in the registry
ValidationFailureWitness ==
  /\ options.source
  /\ options.task = "notFunction"
  /\ cycles # <<>>
  /\ ~handler.first
  /\ Last(cycles).warnings = <<"taskNotFunction">>
  /\ Last(cycles).callbacks = 1
  /\ ~handler.invoked
  /\ prevTimestamps = NoTimestamps
  /\ fileDependencies = {FileZ}
  /\ contextDependencies = {DirABC}

\* the always-run flag as the claim resolves it
EffectiveAlwaysRun ==
  IF options.always # "undefined" THEN options.always = "true"
  ELSE options.alwaysRun

\* the directory-watch flag as the claim resolves it
EffectiveDirectoryWatch ==
  IF options.watchSourceDirectories # "undefined"
    THEN options.watchSourceDirectories = "true"
    ELSE options.includeSourceDirectories

\* C13: the handler behaves after the deprecated option whenever it is set
\* and after the current option otherwise: the task of a cycle with a stored
\* snapshot and no changed dependency runs iff the effective always-run
\* flag is true, source directories are registered iff the effective
\* directory-watch flag is true, a mismatch warning is emitted exactly when
\* the deprecated option is set and differs from the current one, and the
\* cycle passes validation all the same.
OptionResolution ==
  /\ cycles # <<>> =>
       /\ Last(cycles).valid
       /\ Includes(Last(cycles).warnings, "mismatchAlways") <=>
            (/\ options.always # "undefined"
             /\ (options.always = "true") # options.alwaysRun)
       /\ Includes(Last(cycles).warnings, "mismatchWatchSourceDirectories") <=>
            (/\ options.watchSourceDirectories # "undefined"
             /\ (options.watchSourceDirectories = "true")
                  # options.includeSourceDirectories)
  /\ Decided =>
       /\ handler.invoked <=>
            (\/ handler.noPreviousTimestamps
             \/ handler.taskFileHasChanged
             \/ EffectiveAlwaysRun)
       /\ (EffectiveDirectoryWatch /\ handler.dependencyFiles # <<>>)
            => DirA \in contextDependencies
  /\ ~EffectiveDirectoryWatch => contextDependencies \in InitialRegistries

\* deprecated `always: false` overrides watchMode.alwaysRun = true and
\* deprecated `watchSourceDirectories: true` overrides
\* watchMode.includeSourceDirectories = false: both mismatch warnings, no
\* task in a cycle without changes, source directory registered
OptionResolutionWitness ==
  /\ options.always = "false"
  /\ options.alwaysRun
  /\ options.watchSourceDirectories = "true"
  /\ ~options.includeSourceDirectories
  /\ Decided
  /\ ~handler.noPreviousTimestamps
  /\ ~handler.taskFileHasChanged
  /\ ~handler.invoked
  /\ handler.dependencyFiles # <<>>
  /\ Includes(Last(cycles).warnings, "mismatchAlways")
  /\ Includes(Last(cycles).warnings, "mismatchWatchSourceDirectories")
  /\ DirA \in contextDependencies

\* the directories of the files the source glob may match: the only
\* directories this plugin instance ever registers
SourceDirectories ==
  UNION {Range(getDependencyDirectories(files)) : files \in GlobResults}

\* C14 (as claimed): no step removes from the watched-directory set an entry
\* that the plugin did not itself add, and no step removes a watched file.
ForeignEntriesKept ==
  [][/\ fileDependencies \subseteq fileDependencies'
     /\ \A d \in contextDependencies \ SourceDirectories :
          d \in contextDependencies']_vars

\* C14 (amended): the watched-file set only ever grows; an entry leaves the
\* watched-directory set, whoever registered it, only in a step in which the
\* plugin registers a directory that it is a strict subdirectory of.
OnlyCoveredDirectoriesRemoved ==
  [][/\ fileDependencies \subseteq fileDependencies'
     /\ \A d \in contextDependencies \ contextDependencies' :
          \E e \in contextDependencies' \ contextDependencies :
            IsProperPrefix(e, d)]_vars

\* the directory another collaborator registered is gone, the source
\* directory above it is registered, the collaborator's file is still watched
CoveredDirectoryRemovedWitness ==
  /\ DirABC \notin contextDependencies
  /\ DirA \in contextDependencies
  /\ fileDependencies = {FileZ, FileX, FileY}
  /\ Decided

\* the time a stored snapshot contributes for a path: its own time for the
\* path when a snapshot is stored and holds the path, the construction time
\* otherwise
PrevTimeOf(prev, path, startTime) ==
  IF prev.present /\ MapHas(prev.map, path)
    THEN TimeIn(prev.map, path) ELSE startTime

\* C15: getChangedFiles reports a key of the current snapshot iff its
\* previous time (the stored snapshot's time for it, or the construction
\* time when there is no stored snapshot or it lacks the path) is strictly
\* before its current time; it reports nothing but keys of the current
\* snapshot, each at most once.
ChangeDetection ==
  (probe.fn = "getChangedFiles" /\ probe.called) =>
    /\ NoDuplicates(probe.result)
    /\ Range(probe.result) \subseteq Range(MapKeys(probe.fileTimestamps))
    /\ \A path \in Range(MapKeys(probe.fileTimestamps)) :
         path \in Range(probe.result) <=>
           PrevTimeOf(probe.prev, path, probe.startTime)
             < TimeIn(probe.fileTimestamps, path)

\* a stored snapshot that holds FileX but not FileY: FileY, newer than the
\* construction, is reported; FileX, newer than the construction but not
\* newer than its stored time, is not
ChangeDetectionWitness ==
  /\ probe.fn = "getChangedFiles"
  /\ probe.called
  /\ probe.prev.present
  /\ MapHas(probe.prev.map, FileX)
  /\ ~MapHas(probe.prev.map, FileY)
  /\ probe.startTime < TimeIn(probe.prev.map, FileX)
  /\ MapKeys(probe.fileTimestamps) = <<FileX, FileY>>
  /\ probe.result = <<FileY>>

\* the entries of s keep the relative order they have in reference
OrderedAs(s, reference) ==
  \A i \in 1..Len(s), j \in 1..Len(s) :
    i < j =>
      \E k \in 1..Len(reference), l \in 1..Len(reference) :
        k < l /\ reference[k] = s[i] /\ reference[l] = s[j]

\* C16 (as claimed): getChangedDependencies returns exactly the paths that
\* are in both lists, in the order they have in dependencyFiles.
ChangedDependenciesInDependencyOrder ==
  (probe.fn = "getChangedDependencies" /\ probe.called) =>
    /\ Range(probe.result)
         = Range(probe.dependencyFiles) \cap Range(probe.changedFiles)
    /\ OrderedAs(probe.result, probe.dependencyFiles)

\* C16 (amended): getChangedDependencies returns exactly the paths that are
\* in both lists, each once, in the order they have in changedFiles.
ChangedDependenciesInChangedOrder ==
  (probe.fn = "getChangedDependencies" /\ probe.called) =>
    /\ Range(probe.result)
         = Range(probe.dependencyFiles) \cap Range(probe.changedFiles)
    /\ NoDuplicates(probe.result)
    /\ OrderedAs(probe.result, probe.changedFiles)

\* both lists hold the same two files in opposite orders
ChangedDependenciesWitness ==
  /\ probe.fn = "getChangedDependencies"
  /\ probe.called
  /\ probe.dependencyFiles = <<FileY, FileX>>
  /\ probe.changedFiles = <<FileX, FileY>>
  /\ probe.result = <<FileX, FileY>>

\* C17 (as claimed): a hook invocation that finds a stored snapshot with
\* zero entries is treated like a first cycle: its noPreviousTimestamps is
\* true (so that the task runs unless skipInitialRun skips it).
EmptySnapshotTreatedAsFirst ==
  [][(/\ cycles' # <<>>
      /\ Last(cycles').pc = "glob"
      /\ cycles # <<>> => Last(cycles).pc # "glob"
      /\ prevTimestamps.present
      /\ prevTimestamps.map = <<>>)
       => handler'.noPreviousTimestamps]_vars

\* the output getDurationString is claimed to give when the minutes unit is
\* rendered: hours if any, minutes, seconds, and nothing else
HoursMinutesSeconds(duration) ==
  (IF duration >= HOUR THEN ToString(duration \div HOUR) \o "h " ELSE "")
    \o ToString((duration % HOUR) \div MINUTE) \o "m "
    \o ToString((duration % MINUTE) \div SECOND) \o "s"

\* C18 (as claimed): for every duration of a minute or more the output of
\* getDurationString has no millisecond component, and 3600500 yields
\* "1h 0m 0s", 0 yields "", 999 "999ms", 1000 "1s", 61000 "1m 0s" and
\* 3661000 "1h 1m 1s".
NoMillisecondsFromAMinuteOn ==
  (probe.fn = "getDurationString" /\ probe.called) =>
    /\ probe.duration >= MINUTE
         => probe.result = HoursMinutesSeconds(probe.duration)
    /\ probe.duration = 3600500 => probe.result = "1h 0m 0s"
    /\ probe.duration = 0 => probe.result = ""
    /\ probe.duration = 999 => probe.result = "999ms"
    /\ probe.duration = 1000 => probe.result = "1s"
    /\ probe.duration = 61000 => probe.result = "1m 0s"
    /\ probe.duration = 3661000 => probe.result = "1h 1m 1s"

\* C19 (as claimed): isDirectorySubdirectory(child, parent) is true exactly
\* when parent's segment sequence is a proper prefix of child's, whatever
\* the directory names are.
SubdirectoryIffProperPrefix ==
  (probe.fn = "isDirectorySubdirectory" /\ probe.called) =>
    (probe.result <=> IsProperPrefix(probe.parent, probe.child))

\* C20 (as claimed): a cycle whose task failed has its error in the host's
\* error channel, has not emitted the finish notice, and has called back.
FailedTaskReportedWithoutFinishNotice ==
  \A i \in 1..Len(cycles) :
    cycles[i].errors > 0 =>
      /\ ~cycles[i].finishNotice
      /\ cycles[i].callbacks >= 1
      /\ cycles[i].pc = "done"

\* C21 (as claimed): a failed task does not advance prevTimestamps; stated
\* for the first cycle of an instance, the only cycle that can have written
\* it by then: once its task has failed, prevTimestamps is still absent.
FailedTaskKeepsSnapshotBack ==
  (/\ cycles # <<>>
   /\ handler.first
   /\ Last(cycles).errors > 0)
    => prevTimestamps = NoTimestamps

\* C21 (amended): a failed task advances prevTimestamps like a successful
\* one: the step in which the latest cycle's task settles with an error
\* stores that cycle's snapshot, and the hook invocation that follows a
\* failed cycle does not have noPreviousTimestamps.
FailedTaskAdvancesSnapshot ==
  [][/\ (/\ cycles # <<>>
         /\ Len(cycles') = Len(cycles)
         /\ Last(cycles').errors > Last(cycles).errors)
          => prevTimestamps'
               = [present |-> TRUE, map |-> Last(cycles).fileTimestamps]
     /\ (/\ cycles # <<>>
         /\ Last(cycles).errors > 0
         /\ cycles' # <<>>
         /\ Last(cycles').pc = "glob")
          => ~handler'.noPreviousTimestamps]_vars

\* a later cycle of an instance, started with a stored snapshot, whose task
\* failed and whose snapshot is the stored one now
FailedTaskAdvancesWitness ==
  /\ cycles # <<>>
  /\ ~handler.first
  /\ ~handler.noPreviousTimestamps
  /\ handler.invoked
  /\ Last(cycles).errors > 0
  /\ Last(cycles).fileTimestamps # <<>>
  /\ prevTimestamps = [present |-> TRUE, map |-> Last(cycles).fileTimestamps]

\* C22 (as claimed): the completion callback of a cycle is not invoked
\* while that cycle's task execution is pending, so that no two task
\* executions of one instance are ever in flight together.
CyclesDoNotOverlap ==
  /\ \A i \in 1..Len(cycles) :
       cycles[i].pc = "running" => cycles[i].callbacks = 0
  /\ Len(PendingCycles) <= 1

\* C23: prevTimestamps is absent until its first update; every update
\* replaces it by the whole fileTimestamps snapshot the host supplied to one
\* cycle that has started before (never a part of it, never a merge with
\* the stored one), and once set it is never absent again.
SnapshotWholeOrAbsent ==
  [][/\ prevTimestamps.present => prevTimestamps'.present
     /\ ~prevTimestamps'.present => prevTimestamps' = NoTimestamps
     /\ prevTimestamps' # prevTimestamps =>
          \E i \in 1..Len(cycles) :
            /\ cycles[i].pc = "running"
            /\ prevTimestamps'
                 = [present |-> TRUE, map |-> cycles[i].fileTimestamps]]_vars

\* the stored snapshot is the whole three-entry map of an earlier cycle
\* while the latest cycle, supplied another map, is still awaiting its glob
SnapshotWholeWitness ==
  /\ cycles # <<>>
  /\ ~handler.first
  /\ Last(cycles).pc = "glob"
  /\ prevTimestamps.present
  /\ Len(prevTimestamps.map) = 3
  /\ prevTimestamps.map \in Snapshots
  /\ prevTimestamps.map # Last(cycles).fileTimestamps

\* C24: after watchDependencyDirectories(dirs), every directory of dirs and
\* every directory the registry held before the call is in the registry or
\* lies strictly below a registry entry, and every entry the call deleted
\* lies strictly below an entry the call added.
WatchCoverageKept ==
  (probe.fn = "watchDependencyDirectories" /\ probe.calls >= 1) =>
    /\ \A d \in Range(probe.dirs) \cup probe.before :
         \/ d \in probe.once
         \/ \E e \in probe.once : IsProperPrefix(e, d)
    /\ \A d \in probe.before \ probe.once :
         \E e \in probe.once \ probe.before : IsProperPrefix(e, d)

\* one call that deleted a registered directory, added a directory above
\* it, and left a directory of the list out because an entry covers it
WatchCoverageWitness ==
  /\ probe.fn = "watchDependencyDirectories"
  /\ probe.calls = 1
  /\ probe.before \ probe.once # {}
  /\ probe.once \ probe.before # {}
  /\ \E d \in Range(probe.dirs) : d \notin probe.once

====
